---- MODULE Spec2Model ----
(***************************************************************************)
(* A model of flat_map<K, V> (src/Flat_map/flat_map.h): a map kept as one  *)
(* sorted std::vector<std::pair<K, V>> m_data.  K is int with std::less,   *)
(* V is a string-like value type whose construction from the designated   *)
(* input "poison" throws.  Positions (iterators) are 1-based indices into  *)
(* m_data; end() is Len(m_data) + 1.                                       *)
(***************************************************************************)
EXTENDS Integers, Sequences, FiniteSets, TLC

VARIABLES
    m_data,       \* flat_map::m_data: the vector's elements, in order
    cap,          \* m_data.capacity()
    pc,           \* where the caller is: "idle", inside insert(It, It), or "done"
    input,        \* insert(It, It): the whole range [begin, end) of the public call
    begin,        \* insert(It, It): index in input of the iterator `begin`
    size_before,  \* insert(It, It): the local size_before
    i,            \* insert(It, It): the counter i of the append loop
    start,        \* m_data and capacity when the public insert(It, It) call began
    batch,        \* m_data and `begin` when the running append batch began
    result,       \* the call that has just finished, with what it returned
    logical       \* the logical entry set: key -> stored value, or NoValue

vars == <<m_data, cap, pc, input, begin, size_before, i, start, batch, result, logical>>

bulkVars == <<input, begin, size_before, i, start, batch>>

-----------------------------------------------------------------------------
(* Bounds of the model. *)

MaxKey == 3        \* keys are 1..MaxKey
MaxLen == 3        \* longest input range of insert(It, It)
MaxReserve == 4    \* largest argument of reserve
MaxSwapLen == 2    \* most entries of a flat_map that swap is called with

Keys == 1..MaxKey
Values == {"a", "b"}
Poison == "poison"
NoValue == "none"

-----------------------------------------------------------------------------
(* Types and comparators. *)

\* value_type = std::pair<K, V>
value_type(k, v) == [first |-> k, second |-> v]

\* mapped_type(): the value-initialised V
mapped_type == ""

\* key_compare = std::less<K>
key_compare(lhs, rhs) == lhs < rhs

\* value_compare: entries are compared by key
value_compare(lhs, rhs) == key_compare(lhs.first, rhs.first)

\* KeyOrValueCompare, the overloads the container uses
CompKeyValue(key, e) == key_compare(key, e.first)
CompValueKey(e, key) == key_compare(e.first, key)

\* Constructing a V from the poison input throws.
ConstructionThrows(e) == e.second = Poison

End(data) == Len(data) + 1

-----------------------------------------------------------------------------
(* std::vector and <algorithm> primitives, as the container calls them. *)

\* std::lower_bound: binary search for the first element not less than key
RECURSIVE LowerBoundFrom(_, _, _, _)
LowerBoundFrom(data, first, len, key) ==
    IF len <= 0 THEN first
    ELSE LET half == len \div 2
             mid == first + half
         IN IF CompValueKey(data[mid], key)
            THEN LowerBoundFrom(data, mid + 1, len - half - 1, key)
            ELSE LowerBoundFrom(data, first, half, key)

lower_bound(data, key) == LowerBoundFrom(data, 1, Len(data), key)

\* m_data.emplace(pos, ...): the new element sits at pos, the tail moves up
VectorEmplace(data, pos, e) ==
    SubSeq(data, 1, pos - 1) \o <<e>> \o SubSeq(data, pos, Len(data))

\* m_data.erase(first, last): [first, last) removed, the tail moves down
VectorErase(data, first, last) ==
    SubSeq(data, 1, first - 1) \o SubSeq(data, last, Len(data))

\* capacity after one element is added to a vector of this size and
\* capacity: unchanged while there is room, doubled when full
GrowCapacity(size, capacity) ==
    IF size < capacity THEN capacity
    ELSE size + (IF size > 1 THEN size ELSE 1)

-----------------------------------------------------------------------------
(* Lookup. *)

binary_find_first_only(data, key) ==
    IF data # << >> /\ ~CompKeyValue(key, data[1]) /\ ~CompValueKey(data[1], key)
    THEN 1 ELSE End(data)

\* flat_map::binary_find
binary_find(data, key) ==
    LET lb == lower_bound(data, key)
    IN IF lb = End(data) \/ CompKeyValue(key, data[lb]) THEN End(data) ELSE lb

\* flat_map::find
find(data, key) == binary_find(data, key)

-----------------------------------------------------------------------------
(* Comparison. *)

equals_keys_only(a, b) ==
    /\ Len(a) = Len(b)
    /\ \A n \in 1..Len(a) : a[n].first = b[n].first

\* operator==: m_data == other.m_data, the sizes are equal and the pairs
\* are equal position by position, key and value
equals(a, b) ==
    /\ Len(a) = Len(b)
    /\ \A n \in 1..Len(a) : a[n].first = b[n].first /\ a[n].second = b[n].second

\* operator!=
not_equals(a, b) == ~equals(a, b)

-----------------------------------------------------------------------------
(* Reverse iteration.  A reverse iterator is modelled by the position of   *)
(* its base: it designates the entry before that position, and ++ moves    *)
(* the base one entry towards begin().                                     *)

\* rbegin(), rbegin() const, crbegin(): std::rbegin(m_data), std::crbegin(m_data)
rbegin(data) == End(data)
rbegin_const(data) == End(data)
crbegin(data) == End(data)

\* rend(), crend(): std::rend(m_data), std::crend(m_data)
rend(data) == 1
crend(data) == 1

\* rend() const: std::rbegin(m_data)
rend_const(data) == End(data)

\* for (it = from; it != to; ++it) visits *it
RECURSIVE ReverseTraversal(_, _, _)
ReverseTraversal(data, from, to) ==
    IF from = to THEN << >>
    ELSE <<data[from - 1]>> \o ReverseTraversal(data, from - 1, to)

-----------------------------------------------------------------------------
(* Single-element mutation, as functions of the vector. *)

emplace_overwrite(data, e) ==
    LET lb == lower_bound(data, e.first)
    IN IF lb = End(data) \/ CompKeyValue(e.first, data[lb])
       THEN IF ConstructionThrows(e)
            THEN [data |-> data, pos |-> End(data), inserted |-> FALSE, thrown |-> TRUE]
            ELSE [data |-> VectorEmplace(data, lb, e), pos |-> lb,
                  inserted |-> TRUE, thrown |-> FALSE]
       ELSE [data |-> [data EXCEPT ![lb] = e], pos |-> lb,
             inserted |-> FALSE, thrown |-> FALSE]

\* flat_map::emplace.  The element is constructed only when it is inserted;
\* a construction that throws leaves the vector as it was.
emplace(data, e) ==
    LET lb == lower_bound(data, e.first)
    IN IF lb = End(data) \/ CompKeyValue(e.first, data[lb])
       THEN IF ConstructionThrows(e)
            THEN [data |-> data, pos |-> End(data), inserted |-> FALSE, thrown |-> TRUE]
            ELSE [data |-> VectorEmplace(data, lb, e), pos |-> lb,
                  inserted |-> TRUE, thrown |-> FALSE]
       ELSE [data |-> data, pos |-> lb, inserted |-> FALSE, thrown |-> FALSE]

emplace_hint_trusting(data, hint, e) ==
    IF hint = End(data) \/ CompKeyValue(e.first, data[hint])
    THEN [data |-> VectorEmplace(data, hint, e), pos |-> hint]
    ELSE IF ~CompValueKey(data[hint], e.first)
         THEN [data |-> data, pos |-> hint]
         ELSE LET r == emplace(data, e) IN [data |-> r.data, pos |-> r.pos]

\* flat_map::emplace_hint
emplace_hint(data, hint, e) ==
    IF hint = End(data) \/ CompKeyValue(e.first, data[hint])
    THEN IF hint = 1 \/ CompValueKey(data[hint - 1], e.first)
         THEN [data |-> VectorEmplace(data, hint, e), pos |-> hint]
         ELSE LET r == emplace(data, e) IN [data |-> r.data, pos |-> r.pos]
    ELSE IF ~CompValueKey(data[hint], e.first)
         THEN [data |-> data, pos |-> hint]
         ELSE LET r == emplace(data, e) IN [data |-> r.data, pos |-> r.pos]

subscript_no_insert(data, key) ==
    LET lower == lower_bound(data, key)
    IN [data |-> data, pos |-> IF lower = End(data) THEN Len(data) ELSE lower]

\* flat_map::operator[]: the position of the value the reference designates
subscript(data, key) ==
    LET lower == lower_bound(data, key)
    IN IF lower = End(data) \/ CompKeyValue(key, data[lower])
       THEN [data |-> VectorEmplace(data, lower, value_type(key, mapped_type)),
             pos |-> lower]
       ELSE [data |-> data, pos |-> lower]

at_inserting(data, key) ==
    LET r == subscript(data, key)
    IN [data |-> r.data, pos |-> r.pos, thrown |-> FALSE]

\* flat_map::at: detail::throw_out_of_range when the key is absent
at(data, key) ==
    LET found == binary_find(data, key)
    IN IF found = End(data)
       THEN [data |-> data, pos |-> found, thrown |-> TRUE]
       ELSE [data |-> data, pos |-> found, thrown |-> FALSE]

erase_key_lower_bound(data, key) ==
    LET found == lower_bound(data, key)
    IN IF found = End(data)
       THEN [data |-> data, count |-> 0]
       ELSE [data |-> VectorErase(data, found, found + 1), count |-> 1]

\* flat_map::erase(const key_type&)
erase_key(data, key) ==
    LET found == find(data, key)
    IN IF found = End(data)
       THEN [data |-> data, count |-> 0]
       ELSE [data |-> VectorErase(data, found, found + 1), count |-> 1]

\* flat_map::erase(iterator)
erase_pos(data, it) == [data |-> VectorErase(data, it, it + 1), pos |-> it]

\* flat_map::erase(const_iterator, const_iterator)
erase_range(data, first, last) == [data |-> VectorErase(data, first, last), pos |-> first]

-----------------------------------------------------------------------------
(* The steps of the bulk insert(It, It). *)

\* the place of e in a sorted run: after every element not greater than it
RECURSIVE InsertSorted(_, _)
InsertSorted(sorted, e) ==
    IF sorted = << >> THEN <<e>>
    ELSE IF value_compare(e, Head(sorted))
         THEN <<e>> \o sorted
         ELSE <<Head(sorted)>> \o InsertSorted(Tail(sorted), e)

RECURSIVE InsertSortedBefore(_, _)
InsertSortedBefore(sorted, e) ==
    IF sorted = << >> THEN <<e>>
    ELSE IF ~value_compare(Head(sorted), e)
         THEN <<e>> \o sorted
         ELSE <<Head(sorted)>> \o InsertSortedBefore(Tail(sorted), e)

RECURSIVE sort_unstable(_)
sort_unstable(seq) ==
    IF seq = << >> THEN << >>
    ELSE InsertSortedBefore(sort_unstable(SubSeq(seq, 1, Len(seq) - 1)), seq[Len(seq)])

\* std::stable_sort(mid, end, comp): equal keys keep their input order
RECURSIVE stable_sort(_)
stable_sort(seq) ==
    IF seq = << >> THEN << >>
    ELSE InsertSorted(stable_sort(SubSeq(seq, 1, Len(seq) - 1)), seq[Len(seq)])

inplace_merge_right_first(left, right) == stable_sort(right \o left)

\* std::inplace_merge(begin, mid, end, comp): stable, so of two equal keys
\* the one of the left run comes first
RECURSIVE inplace_merge(_, _)
inplace_merge(left, right) ==
    IF left = << >> THEN right
    ELSE IF right = << >> THEN left
    ELSE IF value_compare(Head(right), Head(left))
         THEN <<Head(right)>> \o inplace_merge(left, Tail(right))
         ELSE <<Head(left)>> \o inplace_merge(Tail(left), right)

\* std::unique(begin, end, std::not2(comp)): an element is dropped when the
\* last kept element is not less than it
RECURSIVE UniqueFrom(_, _)
UniqueFrom(kept, rest) ==
    IF rest = << >> THEN kept
    ELSE IF ~value_compare(kept[Len(kept)], Head(rest))
         THEN UniqueFrom(kept, Tail(rest))
         ELSE UniqueFrom(Append(kept, Head(rest)), Tail(rest))

unique_keep_all(seq) == seq

unique(seq) == IF seq = << >> THEN << >> ELSE UniqueFrom(<<Head(seq)>>, Tail(seq))

\* lines 405-410: sort the appended tail, merge it with the prefix, drop
\* the entries whose key repeats
MergeBatch(data, before) ==
    unique(inplace_merge(SubSeq(data, 1, before),
                         stable_sort(SubSeq(data, before + 1, Len(data)))))

RollbackKeepTail(data, before) == data

RollbackOne(data, before) ==
    IF Len(data) > before THEN SubSeq(data, 1, Len(data) - 1) ELSE data

\* the catch block: pop_back until the size is size_before again
RECURSIVE Rollback(_, _)
Rollback(data, before) ==
    IF Len(data) > before
    THEN Rollback(SubSeq(data, 1, Len(data) - 1), before)
    ELSE data

-----------------------------------------------------------------------------
(* The logical entry set, kept beside the vector to state what the map     *)
(* holds: a key is bound by the insertion that creates it, rebound by a    *)
(* write through a reference, and unbound by an erase.                     *)

EmptyMap == [k \in Keys |-> NoValue]

LogicalEmplace(L, e) ==
    IF L[e.first] = NoValue THEN [L EXCEPT ![e.first] = e.second] ELSE L

RECURSIVE LogicalEmplaceAll(_, _)
LogicalEmplaceAll(L, seq) ==
    IF seq = << >> THEN L
    ELSE LogicalEmplaceAll(LogicalEmplace(L, Head(seq)), Tail(seq))

LogicalEraseAll(L, ks) == [k \in Keys |-> IF k \in ks THEN NoValue ELSE L[k]]

KeysOf(data) == {data[j].first : j \in 1..Len(data)}

LogicalOf(data) == LogicalEmplaceAll(EmptyMap, data)

\* one-by-one emplace of a sequence, stopping at an element that throws
RECURSIVE EmplaceAll(_, _)
EmplaceAll(data, seq) ==
    IF seq = << >> THEN data
    ELSE LET r == emplace(data, Head(seq))
         IN IF r.thrown THEN data ELSE EmplaceAll(r.data, Tail(seq))

-----------------------------------------------------------------------------
(* The state machine.  A public call is one step, except insert(It, It),   *)
(* which runs loop pass by loop pass.  A finished call leaves in `result`   *)
(* its arguments, what it returned or threw, and the vector it started     *)
(* from; Return is the caller moving on.                                   *)

NoResult ==
    [op |-> "none", key |-> 0, value |-> NoValue, hint |-> 0, pos |-> 0,
     inserted |-> FALSE, count |-> 0, thrown |-> FALSE, kept |-> 0,
     before |-> << >>, cap_before |-> 0, visited |-> << >>,
     other |-> [data |-> << >>, cap |-> 0], returned |-> FALSE, step |-> "none"]

Called(op) == [NoResult EXCEPT !.op = op, !.before = m_data, !.cap_before = cap]

NoBatch == [data |-> << >>, begin |-> 0, fallback |-> 0, entry |-> 1, cap |-> 0]

Init ==
    /\ m_data = << >>
    /\ cap = 0
    /\ pc = "idle"
    /\ input = << >>
    /\ begin = 1
    /\ size_before = 0
    /\ i = 0
    /\ start = [data |-> << >>, cap |-> 0]
    /\ batch = NoBatch
    /\ result = NoResult
    /\ logical = EmptyMap

\* insert(const value_type&), insert(value_type&&) and emplace
CallEmplace ==
    /\ pc = "idle"
    /\ \E k \in Keys, v \in Values :
        /\ LET r == emplace(m_data, value_type(k, v))
           IN /\ m_data' = r.data
              /\ cap' = IF r.inserted THEN GrowCapacity(Len(m_data), cap) ELSE cap
              /\ result' = [Called("emplace") EXCEPT !.key = k, !.value = v,
                                !.pos = r.pos, !.inserted = r.inserted]
        /\ logical' = LogicalEmplace(logical, value_type(k, v))
        /\ pc' = "done"
        /\ UNCHANGED bulkVars

\* insert(hint, value) and emplace_hint
CallEmplaceHint ==
    /\ pc = "idle"
    /\ \E hint \in 1..End(m_data), k \in Keys, v \in Values :
        /\ LET r == emplace_hint(m_data, hint, value_type(k, v))
           IN /\ m_data' = r.data
              /\ cap' = IF Len(r.data) > Len(m_data)
                        THEN GrowCapacity(Len(m_data), cap) ELSE cap
              /\ result' = [Called("emplace_hint") EXCEPT !.key = k, !.value = v,
                                !.hint = hint, !.pos = r.pos]
        /\ logical' = LogicalEmplace(logical, value_type(k, v))
        /\ pc' = "done"
        /\ UNCHANGED bulkVars

\* operator[]: the caller holds the returned reference until Return
CallSubscript ==
    /\ pc = "idle"
    /\ \E k \in Keys :
        /\ LET r == subscript(m_data, k)
           IN /\ m_data' = r.data
              /\ cap' = IF Len(r.data) > Len(m_data)
                        THEN GrowCapacity(Len(m_data), cap) ELSE cap
              /\ result' = [Called("subscript") EXCEPT !.key = k, !.pos = r.pos]
        /\ logical' = LogicalEmplace(logical, value_type(k, mapped_type))
        /\ pc' = "done"
        /\ UNCHANGED bulkVars

\* at(key): a reference, or out_of_range
CallAt ==
    /\ pc = "idle"
    /\ \E k \in Keys :
        /\ LET r == at(m_data, k)
           IN /\ m_data' = r.data
              /\ cap' = IF Len(r.data) > Len(m_data)
                        THEN GrowCapacity(Len(m_data), cap) ELSE cap
              /\ result' = [Called("at") EXCEPT !.key = k, !.pos = r.pos,
                                !.thrown = r.thrown]
        /\ pc' = "done"
        /\ UNCHANGED <<logical, bulkVars>>

\* the caller assigns through the reference operator[] or at has returned
AssignThroughReference ==
    /\ pc = "done"
    /\ result.op \in {"subscript", "at"}
    /\ ~result.thrown
    /\ \E v \in Values :
        /\ m_data' = [m_data EXCEPT ![result.pos].second = v]
        /\ result' = [result EXCEPT !.op = "assign", !.value = v, !.before = m_data]
        /\ logical' = [logical EXCEPT ![result.key] = v]
        /\ UNCHANGED <<cap, pc, bulkVars>>

CallFind ==
    /\ pc = "idle"
    /\ \E k \in Keys :
        /\ result' = [Called("find") EXCEPT !.key = k, !.pos = find(m_data, k)]
        /\ pc' = "done"
        /\ UNCHANGED <<m_data, cap, logical, bulkVars>>

CallEraseKey ==
    /\ pc = "idle"
    /\ \E k \in Keys :
        /\ LET r == erase_key(m_data, k)
           IN /\ m_data' = r.data
              /\ result' = [Called("erase_key") EXCEPT !.key = k, !.count = r.count]
        /\ logical' = LogicalEraseAll(logical, {k})
        /\ pc' = "done"
        /\ UNCHANGED <<cap, bulkVars>>

\* erase(iterator): the iterator designates an entry
CallErasePos ==
    /\ pc = "idle"
    /\ \E it \in 1..Len(m_data) :
        /\ LET r == erase_pos(m_data, it)
           IN /\ m_data' = r.data
              /\ result' = [Called("erase_pos") EXCEPT !.hint = it, !.pos = r.pos]
        /\ logical' = LogicalEraseAll(logical, {m_data[it].first})
        /\ pc' = "done"
        /\ UNCHANGED <<cap, bulkVars>>

\* erase(first, last) of a valid range
CallEraseRange ==
    /\ pc = "idle"
    /\ \E first \in 1..End(m_data), last \in 1..End(m_data) :
        /\ last \in first..End(m_data)
        /\ LET r == erase_range(m_data, first, last)
           IN /\ m_data' = r.data
              /\ result' = [Called("erase_range") EXCEPT !.hint = first, !.pos = r.pos]
        /\ logical' = LogicalEraseAll(logical, {m_data[j].first : j \in first..(last - 1)})
        /\ pc' = "done"
        /\ UNCHANGED <<cap, bulkVars>>

CallClear ==
    /\ pc = "idle"
    /\ m_data' = << >>
    /\ result' = Called("clear")
    /\ logical' = EmptyMap
    /\ pc' = "done"
    /\ UNCHANGED <<cap, bulkVars>>

reserve_exact(capacity, n) == n

\* m_data.reserve(n): no effect when n <= capacity(), else room for n
reserve(capacity, n) == IF n > capacity THEN n ELSE capacity

CallReserve ==
    /\ pc = "idle"
    /\ \E n \in 0..MaxReserve :
        /\ cap' = reserve(cap, n)
        /\ result' = [Called("reserve") EXCEPT !.hint = n]
        /\ pc' = "done"
        /\ UNCHANGED <<m_data, logical, bulkVars>>

CallShrinkToFit ==
    /\ pc = "idle"
    /\ cap' = Len(m_data)
    /\ result' = Called("shrink_to_fit")
    /\ pc' = "done"
    /\ UNCHANGED <<m_data, logical, bulkVars>>

\* the flat_maps swap is called with: built by emplace from short sequences
RECURSIVE BuiltBy(_, _)
BuiltBy(c, seq) ==
    IF seq = << >> THEN c
    ELSE LET r == emplace(c.data, Head(seq))
         IN BuiltBy([data |-> r.data,
                     cap |-> IF r.inserted THEN GrowCapacity(Len(c.data), c.cap)
                             ELSE c.cap],
                    Tail(seq))

SwapPartners ==
    {BuiltBy([data |-> << >>, cap |-> 0], seq) :
        seq \in UNION {[1..n -> {value_type(k, "b") : k \in Keys}] : n \in 0..MaxSwapLen}}

\* swap(other): the vectors trade elements and capacity
CallSwap ==
    /\ pc = "idle"
    /\ \E other \in SwapPartners :
        /\ m_data' = other.data
        /\ cap' = other.cap
        /\ result' = Called("swap")
        /\ logical' = LogicalOf(other.data)
        /\ pc' = "done"
        /\ UNCHANGED bulkVars

\* the flat_maps this one is compared with: built by emplace
ComparePartners ==
    {BuiltBy([data |-> << >>, cap |-> 0], seq) :
        seq \in UNION {[1..n -> {value_type(k, v) : k \in Keys, v \in Values}] :
                          n \in 0..MaxSwapLen}}

\* *this == other
CallEquals ==
    /\ pc = "idle"
    /\ \E other \in ComparePartners :
        /\ result' = [Called("equals") EXCEPT
                          !.other = other, !.returned = equals(m_data, other.data)]
        /\ pc' = "done"
        /\ UNCHANGED <<m_data, cap, logical, bulkVars>>

\* *this != other
CallNotEquals ==
    /\ pc = "idle"
    /\ \E other \in ComparePartners :
        /\ result' = [Called("not_equals") EXCEPT
                          !.other = other, !.returned = not_equals(m_data, other.data)]
        /\ pc' = "done"
        /\ UNCHANGED <<m_data, cap, logical, bulkVars>>

\* *this = other: the elements are copied, into the storage held when
\* they fit in it, else into new storage of their number
CallCopyAssign ==
    /\ pc = "idle"
    /\ \E other \in SwapPartners :
        /\ m_data' = other.data
        /\ cap' = IF Len(other.data) > cap THEN Len(other.data) ELSE cap
        /\ result' = Called("copy_assign")
        /\ logical' = LogicalOf(other.data)
        /\ pc' = "done"
        /\ UNCHANGED bulkVars

\* *this = std::move(other): the storage of other is taken over
CallMoveAssign ==
    /\ pc = "idle"
    /\ \E other \in SwapPartners :
        /\ m_data' = other.data
        /\ cap' = other.cap
        /\ result' = Called("move_assign")
        /\ logical' = LogicalOf(other.data)
        /\ pc' = "done"
        /\ UNCHANGED bulkVars

\* a traversal from rbegin() to rend() of a flat_map that is not const
CallReverseTraversal ==
    /\ pc = "idle"
    /\ result' = [Called("reverse") EXCEPT
                      !.visited = ReverseTraversal(m_data, rbegin(m_data), rend(m_data))]
    /\ pc' = "done"
    /\ UNCHANGED <<m_data, cap, logical, bulkVars>>

\* the same traversal of a const flat_map
CallConstReverseTraversal ==
    /\ pc = "idle"
    /\ result' = [Called("reverse_const") EXCEPT
                      !.visited = ReverseTraversal(m_data, rbegin_const(m_data),
                                                   rend_const(m_data))]
    /\ pc' = "done"
    /\ UNCHANGED <<m_data, cap, logical, bulkVars>>

\* a traversal from crbegin() to crend()
CallCReverseTraversal ==
    /\ pc = "idle"
    /\ result' = [Called("creverse") EXCEPT
                      !.visited = ReverseTraversal(m_data, crbegin(m_data), crend(m_data))]
    /\ pc' = "done"
    /\ UNCHANGED <<m_data, cap, logical, bulkVars>>

\* the caller drops what the call returned
Return ==
    /\ pc = "done"
    /\ pc' = "idle"
    /\ result' = NoResult
    /\ input' = << >>
    /\ begin' = 1
    /\ size_before' = 0
    /\ i' = 0
    /\ start' = [data |-> << >>, cap |-> 0]
    /\ batch' = NoBatch
    /\ UNCHANGED <<m_data, cap, logical>>

-----------------------------------------------------------------------------
(* insert(It, It), step by step.  The recursive call `return insert(begin, *)
(* end)` re-enters the first loop with the same range and the advanced     *)
(* begin.                                                                  *)

Elements == {value_type(k, v) : k \in Keys, v \in Values \cup {Poison}}

InputRanges == UNION {[1..n -> Elements] : n \in 0..MaxLen}

\* insert(It, It), insert(initializer_list)
CallInsertRange ==
    /\ pc = "idle"
    /\ \E range \in InputRanges :
        /\ input' = range
        /\ begin' = 1
        /\ start' = [data |-> m_data, cap |-> cap]
        /\ result' = Called("insert_range")
        /\ pc' = "fast"
        /\ UNCHANGED <<m_data, cap, size_before, i, batch, logical>>

AtEndOrLast(b, range) == b >= Len(range)

\* begin == end: the range [begin, end) is used up
AtEnd(b, range) == b > Len(range)

AppendWhileInput(counter, before, b, range) == ~AtEnd(b, range)

\* line 394, the test of the append loop: the counter, which began at
\* capacity(), is above size_before, and the range is not used up
AppendContinues(counter, before, b, range) == counter > before /\ ~AtEnd(b, range)

\* the exception leaves insert(It, It) and reaches the caller; n input
\* elements had been consumed when the step that failed began, and step is
\* the loop it was thrown in
Propagate(n, step) == [result EXCEPT !.thrown = TRUE, !.kept = n, !.step = step]

\* lines 384-386: one pass of the loop that emplaces while the vector is full
InsertFastPath ==
    /\ pc = "fast"
    /\ ~AtEnd(begin, input)
    /\ Len(m_data) = cap
    /\ LET r == emplace(m_data, input[begin])
       IN IF r.thrown
          THEN /\ result' = Propagate(begin - 1, "fast")
               /\ pc' = "done"
               /\ UNCHANGED <<m_data, cap, begin, logical>>
          ELSE /\ m_data' = r.data
               /\ cap' = IF r.inserted THEN GrowCapacity(Len(m_data), cap) ELSE cap
               /\ begin' = begin + 1
               /\ logical' = LogicalEmplace(logical, input[begin])
               /\ UNCHANGED <<pc, result>>
    /\ UNCHANGED <<input, size_before, i, start, batch>>

\* lines 387-389: the range is used up
InsertReturn ==
    /\ pc = "fast"
    /\ AtEnd(begin, input)
    /\ pc' = "done"
    /\ UNCHANGED <<m_data, cap, result, logical, bulkVars>>

\* lines 391-394: size_before is taken and the append loop starts
InsertBeginBatch ==
    /\ pc = "fast"
    /\ ~AtEnd(begin, input)
    /\ Len(m_data) # cap
    /\ size_before' = Len(m_data)
    /\ i' = cap
    /\ batch' = [batch EXCEPT !.data = m_data, !.begin = begin, !.fallback = 0,
                               !.cap = cap]
    /\ pc' = "append"
    /\ UNCHANGED <<m_data, cap, input, begin, start, result, logical>>

\* lines 394-404: one pass of the append loop; a construction that throws
\* runs the catch block, which pops the batch and rethrows
InsertAppend ==
    /\ pc = "append"
    /\ AppendContinues(i, size_before, begin, input)
    /\ IF ConstructionThrows(input[begin])
       THEN /\ m_data' = Rollback(m_data, size_before)
            /\ result' = Propagate(batch.begin - 1, "append")
            /\ pc' = "done"
            /\ UNCHANGED <<cap, begin, i>>
       ELSE /\ m_data' = Append(m_data, input[begin])
            /\ cap' = GrowCapacity(Len(m_data), cap)
            /\ i' = i - 1
            /\ begin' = begin + 1
            /\ UNCHANGED <<pc, result>>
    /\ UNCHANGED <<input, size_before, start, batch, logical>>

\* lines 405-411, 419: the append loop is over; sort, merge, drop repeated
\* keys; unless the batch added nothing, insert(begin, end) is called on
\* what is left of the range (batch.entry is the begin of the innermost
\* call)
InsertMerge ==
    /\ pc = "append"
    /\ ~AppendContinues(i, size_before, begin, input)
    /\ m_data' = MergeBatch(m_data, size_before)
    /\ logical' = LogicalEmplaceAll(logical, SubSeq(m_data, size_before + 1, Len(m_data)))
    /\ pc' = IF Len(m_data') = size_before THEN "stuck" ELSE "fast"
    /\ batch' = IF pc' = "fast" THEN [batch EXCEPT !.entry = begin] ELSE batch
    /\ UNCHANGED <<cap, result, input, begin, size_before, i, start>>

AfterFallbackEmplaceOnce(inserted) == "fast"

\* lines 414-417: an emplace that inserted breaks out of the loop, to the
\* call of line 419; one that did not goes on to the next element
AfterFallbackEmplace(inserted) == IF inserted THEN "fast" ELSE "stuck"

\* lines 412-417: one pass of the loop that runs when the batch added
\* nothing; batch.fallback counts the passes
InsertStuck ==
    /\ pc = "stuck"
    /\ ~AtEnd(begin, input)
    /\ LET r == emplace(m_data, input[begin])
       IN IF r.thrown
          THEN /\ result' = Propagate(begin - 1, "stuck")
               /\ pc' = "done"
               /\ UNCHANGED <<m_data, cap, begin, logical, batch>>
          ELSE /\ m_data' = r.data
               /\ cap' = IF r.inserted THEN GrowCapacity(Len(m_data), cap) ELSE cap
               /\ begin' = begin + 1
               /\ logical' = LogicalEmplace(logical, input[begin])
               /\ pc' = AfterFallbackEmplace(r.inserted)
               /\ batch' = [batch EXCEPT !.fallback = @ + 1,
                                        !.entry = IF r.inserted THEN begin + 1 ELSE @]
               /\ UNCHANGED result
    /\ UNCHANGED <<input, size_before, i, start>>

\* lines 412, 419: that loop ends with the range used up
InsertStuckEnd ==
    /\ pc = "stuck"
    /\ AtEnd(begin, input)
    /\ pc' = "fast"
    /\ batch' = [batch EXCEPT !.entry = begin]
    /\ UNCHANGED <<m_data, cap, result, logical, input, begin, size_before, i, start>>

Next ==
    \/ CallEmplace
    \/ CallEmplaceHint
    \/ CallSubscript
    \/ CallAt
    \/ AssignThroughReference
    \/ CallFind
    \/ CallEraseKey
    \/ CallErasePos
    \/ CallEraseRange
    \/ CallClear
    \/ CallReserve
    \/ CallShrinkToFit
    \/ CallSwap
    \/ CallEquals
    \/ CallNotEquals
    \/ CallCopyAssign
    \/ CallMoveAssign
    \/ CallReverseTraversal
    \/ CallConstReverseTraversal
    \/ CallCReverseTraversal
    \/ CallInsertRange
    \/ InsertFastPath
    \/ InsertReturn
    \/ InsertBeginBatch
    \/ InsertAppend
    \/ InsertMerge
    \/ InsertStuck
    \/ InsertStuckEnd
    \/ Return

Spec == Init /\ [][Next]_vars

\* a step of insert(It, It): the call, once made, runs on until it returns
\* or throws
InsertStep ==
    \/ InsertFastPath
    \/ InsertReturn
    \/ InsertBeginBatch
    \/ InsertAppend
    \/ InsertMerge
    \/ InsertStuck
    \/ InsertStuckEnd

\* the containers insert(It, It) is called on: each set of keys, with every
\* capacity from the size up
StartContainers ==
    LET built == {EmplaceAll(<< >>, seq) :
                     seq \in UNION {[1..n -> {value_type(k, "b") : k \in Keys}] :
                                       n \in 0..MaxKey}}
    IN {s \in {[data |-> d, cap |-> c] : d \in built, c \in 0..MaxReserve} :
           Len(s.data) <= s.cap}

\* the ranges it is called with: the loops are steered by the keys and by
\* the constructions that throw, so the elements have one value or throw
StartRanges ==
    UNION {[1..n -> {value_type(k, v) : k \in Keys, v \in {"a", Poison}}] :
              n \in 0..MaxLen}

\* insert(begin, end) has just been called
InsertInit ==
    /\ start \in StartContainers
    /\ input \in StartRanges
    /\ m_data = start.data
    /\ cap = start.cap
    /\ pc = "fast"
    /\ begin = 1
    /\ size_before = 0
    /\ i = 0
    /\ batch = NoBatch
    /\ result = [NoResult EXCEPT !.op = "insert_range", !.before = start.data,
                                  !.cap_before = start.cap]
    /\ logical = LogicalOf(start.data)

\* one call of insert(It, It), which runs on until it returns or throws
InsertSpec == InsertInit /\ [][InsertStep]_vars /\ WF_vars(InsertStep)

-----------------------------------------------------------------------------
(* Properties. *)

BetweenCalls == pc \in {"idle", "done"}

Finished(op) == pc = "done" /\ result.op = op

HasKey(data, k) == \E j \in 1..Len(data) : data[j].first = k

IndexOf(data, k) == CHOOSE j \in 1..Len(data) : data[j].first = k

\* where a key belongs: behind the entries with a smaller key
SortedIndex(data, k) == Cardinality({j \in 1..Len(data) : data[j].first < k}) + 1

InsertedAt(data, j, e) ==
    [n \in 1..(Len(data) + 1) |->
        IF n < j THEN data[n] ELSE IF n = j THEN e ELSE data[n - 1]]

RemovedAt(data, j) ==
    [n \in 1..(Len(data) - 1) |-> IF n < j THEN data[n] ELSE data[n + 1]]

FirstWith(seq, k) == CHOOSE j \in 1..Len(seq) :
    /\ seq[j].first = k
    /\ \A n \in 1..(j - 1) : seq[n].first # k

\* C1: between public calls, whatever calls came before, the entries are
\* strictly ascending by key: each entry's key is less than the next one's.
C1_StrictlyAscending ==
    BetweenCalls =>
        \A j \in 1..(Len(m_data) - 1) : key_compare(m_data[j].first, m_data[j + 1].first)

\* a bulk insert of an unsorted range with a repeated key has filled the map
C1_Witness ==
    /\ Finished("insert_range")
    /\ ~result.thrown
    /\ Len(input) = 3
    /\ input[1].first > input[2].first
    /\ input[3].first = input[1].first
    /\ Len(m_data) = 3
    /\ batch.begin > 0

\* C2: between calls, for every key, find returns the position of an entry
\* exactly when the key is in the logical entry set, and that entry holds
\* the key and the value last stored for it.
C2_FindAgreesWithEntrySet ==
    BetweenCalls =>
        \A k \in Keys :
            LET p == find(m_data, k)
            IN /\ (p # End(m_data)) <=> (logical[k] # NoValue)
               /\ p # End(m_data) =>
                    /\ p \in 1..Len(m_data)
                    /\ m_data[p] = value_type(k, logical[k])

\* find has found, in a full map, a key whose value was overwritten
C2_Witness ==
    /\ Finished("find")
    /\ Len(m_data) = 3
    /\ result.pos = 3
    /\ m_data[3].second = "b"
    /\ m_data[1].second = mapped_type

\* C3: a bulk insert that returns leaves the entries that emplacing the
\* elements of its range one by one, in order, gives from the same start.
C3_BulkEqualsOneByOne ==
    (Finished("insert_range") /\ ~result.thrown) =>
        m_data = EmplaceAll(start.data, input)

\* a batch was appended and merged: the range repeats a key and holds a key
\* the map had, and the map had spare capacity
C3_Witness ==
    /\ Finished("insert_range")
    /\ ~result.thrown
    /\ start.cap > Len(start.data)
    /\ Len(start.data) > 0
    /\ Len(input) = 3
    /\ input[1].first = input[3].first
    /\ input[1].second # input[3].second
    /\ HasKey(start.data, input[2].first)
    /\ Len(m_data) = Len(start.data) + 1

\* C4 as stated: when a construction throws during a bulk insert, the
\* entries are those the map had before the call.
C4_AsBeforeTheCall ==
    (Finished("insert_range") /\ result.thrown) => m_data = start.data

\* C4 as the code has it: when a construction throws during a bulk insert,
\* the entries are those the map had when the failing step began (the
\* append batch, or the single emplace of the first loop or of the
\* fallback loop), which are the result of emplacing one by one the
\* elements consumed until then; the element that threw is the one at
\* begin, and nothing of the failing batch is left.
C4_AsBeforeTheFailingStep ==
    (Finished("insert_range") /\ result.thrown) =>
        /\ begin \in 1..Len(input)
        /\ ConstructionThrows(input[begin])
        /\ result.kept \in 0..(begin - 1)
        /\ m_data = EmplaceAll(start.data, SubSeq(input, 1, result.kept))
        /\ \A k \in Keys :
            HasKey(m_data, k) =>
                \/ HasKey(start.data, k)
                \/ \E j \in 1..result.kept : input[j].first = k

\* the poison came after two good elements, which an earlier batch had
\* merged in: they stay, and the failing batch leaves nothing
C4_Witness ==
    /\ Finished("insert_range")
    /\ result.thrown
    /\ begin = 3
    /\ batch.begin = 3
    /\ result.kept = 2
    /\ Len(m_data) = Len(start.data) + 1
    /\ m_data # start.data

\* C5: after a bulk insert that returns, a key the map had keeps its entry;
\* any other key of the range is bound to the value of the first element of
\* the range with that key; no other key is bound.  [(1,a),(1,b)] into an
\* empty map gives the one entry (1,a).
C5_FirstWriteWins ==
    (Finished("insert_range") /\ ~result.thrown) =>
        /\ \A k \in Keys :
            IF HasKey(start.data, k)
            THEN /\ HasKey(m_data, k)
                 /\ m_data[IndexOf(m_data, k)] = start.data[IndexOf(start.data, k)]
            ELSE IF HasKey(input, k)
                 THEN /\ HasKey(m_data, k)
                      /\ m_data[IndexOf(m_data, k)] = input[FirstWith(input, k)]
                 ELSE ~HasKey(m_data, k)
        /\ \A j, n \in 1..Len(m_data) : m_data[j].first = m_data[n].first => j = n
        /\ (start.data = << >> /\ input = <<value_type(1, "a"), value_type(1, "b")>>)
              => m_data = <<value_type(1, "a")>>

\* [(1,a),(1,b)] went into an empty map with room for both, through the
\* append and merge
C5_Witness ==
    /\ Finished("insert_range")
    /\ start.data = << >>
    /\ start.cap >= 2
    /\ input = <<value_type(1, "a"), value_type(1, "b")>>
    /\ m_data = <<value_type(1, "a")>>

\* C6: emplace of a key the map has changes nothing and returns that
\* entry's position and false; emplace of a new key puts the entry at its
\* sorted index, one entry more, and returns that position and true.
C6_Emplace ==
    Finished("emplace") =>
        LET e == value_type(result.key, result.value)
            old == result.before
        IN IF HasKey(old, result.key)
           THEN /\ m_data = old
                /\ ~result.inserted
                /\ result.pos = IndexOf(old, result.key)
           ELSE /\ m_data = InsertedAt(old, SortedIndex(old, result.key), e)
                /\ Len(m_data) = Len(old) + 1
                /\ result.inserted
                /\ result.pos = SortedIndex(old, result.key)
                /\ m_data[result.pos] = e

\* emplace was refused for a key bound to another value
C6_Witness ==
    /\ Finished("emplace")
    /\ ~result.inserted
    /\ Len(m_data) = 3
    /\ m_data[result.pos].first = result.key
    /\ m_data[result.pos].second # result.value

\* C7: operator[] of a new key inserts (key, mapped_type()) at its sorted
\* index and returns a reference to that value; of a key the map has, it
\* changes nothing and the reference designates that key's value.  An
\* assignment through the reference replaces that value and no other, and
\* find then yields it.
C7_Subscript ==
    /\ Finished("subscript") =>
        LET old == result.before
        IN /\ IF HasKey(old, result.key)
              THEN m_data = old
              ELSE m_data = InsertedAt(old, SortedIndex(old, result.key),
                                       value_type(result.key, mapped_type))
           /\ result.pos \in 1..Len(m_data)
           /\ m_data[result.pos].first = result.key
    /\ Finished("assign") =>
        /\ Len(m_data) = Len(result.before)
        /\ \A j \in 1..Len(m_data) :
            m_data[j] = IF result.before[j].first = result.key
                        THEN value_type(result.key, result.value)
                        ELSE result.before[j]
        /\ find(m_data, result.key) \in 1..Len(m_data)
        /\ m_data[find(m_data, result.key)].second = result.value

\* m[k] = b has overwritten the a stored for k
C7_Witness ==
    /\ Finished("assign")
    /\ HasKey(result.before, result.key)
    /\ result.before[IndexOf(result.before, result.key)].second = "a"
    /\ result.value = "b"
    /\ Len(m_data) = 2

\* C8: emplace_hint, whatever the hint, leaves the entries emplace would
\* leave, and returns the position of the entry with the candidate's key;
\* when the entry at the hint has that key, nothing is inserted and the
\* hint is returned.
C8_HintEqualsEmplace ==
    Finished("emplace_hint") =>
        LET e == value_type(result.key, result.value)
            old == result.before
        IN /\ m_data = emplace(old, e).data
           /\ result.pos \in 1..Len(m_data)
           /\ m_data[result.pos].first = result.key
           /\ (result.hint <= Len(old) /\ old[result.hint].first = result.key)
                 => (m_data = old /\ result.pos = result.hint)

\* a hint at end() for a key that belongs at the front: the entry was
\* inserted away from the hint
C8_Witness ==
    /\ Finished("emplace_hint")
    /\ Len(result.before) = 2
    /\ result.hint = End(result.before)
    /\ Len(m_data) = 3
    /\ result.pos = 1

\* C9: erase(key) of an absent key returns 0 and changes nothing; of a key
\* the map has, it returns 1 and removes that entry alone: the entries
\* before it stay, the entries after it move down by one.
C9_EraseKey ==
    Finished("erase_key") =>
        LET old == result.before
        IN IF HasKey(old, result.key)
           THEN /\ result.count = 1
                /\ Len(m_data) = Len(old) - 1
                /\ m_data = RemovedAt(old, IndexOf(old, result.key))
           ELSE /\ result.count = 0
                /\ m_data = old

\* the middle entry of three was erased
C9_Witness ==
    /\ Finished("erase_key")
    /\ result.count = 1
    /\ Len(result.before) = 3
    /\ result.key = result.before[2].first

\* C10: at throws exactly when the key is absent, and then changes nothing;
\* when the key is there it returns the stored value.  find and erase(key)
\* never throw: for an absent key they return end() and 0.
C10_AtThrowsWhenAbsent ==
    /\ Finished("at") =>
        /\ result.thrown <=> ~HasKey(result.before, result.key)
        /\ m_data = result.before
        /\ cap = result.cap_before
        /\ ~result.thrown =>
            /\ result.pos \in 1..Len(m_data)
            /\ m_data[result.pos] = value_type(result.key, logical[result.key])
    /\ Finished("find") =>
        /\ ~result.thrown
        /\ ~HasKey(result.before, result.key) => result.pos = End(m_data)
    /\ Finished("erase_key") =>
        /\ ~result.thrown
        /\ ~HasKey(result.before, result.key) => result.count = 0

\* at threw for a key that a map with other entries does not have
C10_Witness ==
    /\ Finished("at")
    /\ result.thrown
    /\ Len(m_data) = 2
    /\ result.key = 2

Reversed(data) == [n \in 1..Len(data) |-> data[Len(data) + 1 - n]]

\* C11: a traversal of a const flat_map from rbegin() to rend() visits every
\* entry once, size() entries, in descending key order, as the traversal of
\* a flat_map that is not const and the crbegin()/crend() traversal do.
C11_ConstReverseVisitsAll ==
    Finished("reverse_const") =>
        /\ Len(result.visited) = Len(m_data)
        /\ result.visited = Reversed(m_data)
        /\ result.visited = ReverseTraversal(m_data, rbegin(m_data), rend(m_data))
        /\ result.visited = ReverseTraversal(m_data, crbegin(m_data), crend(m_data))

\* what every state and reserve(n) owe, whatever lowers the capacity
SizeWithinCapacity == Len(m_data) <= cap

ReserveContract ==
    Finished("reserve") =>
        /\ m_data = result.before
        /\ cap >= result.cap_before
        /\ cap >= result.hint

\* the capacity is not below what it was when the call in progress began,
\* unless the call is one of those named
LoweredOnlyBy(ops) ==
    (pc # "idle" /\ result.op \notin ops) => cap >= result.cap_before

\* C12 as stated: size() <= capacity() in every state; reserve(n) leaves the
\* entries and the size unchanged and yields capacity >= max(old capacity,
\* n); no call but shrink_to_fit lowers the capacity, swap and assignment
\* included.
C12_LoweredOnlyByShrinkToFit ==
    /\ SizeWithinCapacity
    /\ ReserveContract
    /\ LoweredOnlyBy({"shrink_to_fit"})

\* C12, amended: size() <= capacity() in every state; reserve(n) leaves the
\* entries and the size unchanged and yields capacity >= max(old capacity,
\* n); no call but shrink_to_fit, swap and move assignment lowers the
\* capacity, at any step of the call.
C12_LoweredOnlyByShrinkSwapMove ==
    /\ SizeWithinCapacity
    /\ ReserveContract
    /\ LoweredOnlyBy({"shrink_to_fit", "swap", "move_assign"})

\* reserve(n) with n above the capacity, on a container that holds entries
C12_Witness ==
    /\ Finished("reserve")
    /\ result.hint > result.cap_before
    /\ cap = result.hint
    /\ m_data # << >>
    /\ Len(m_data) < cap

Permuted(seq, q) == [n \in 1..Len(seq) |-> seq[q[n]]]

DistinctKeys(seq) ==
    \A a, b \in 1..Len(seq) : seq[a].first = seq[b].first => a = b

\* C13: operator== returns true exactly when the two containers hold the
\* same keys with equal values per key, whatever calls built this one and
\* whatever the two capacities are, and operator!= returns the opposite;
\* a bulk insert of a range of pairwise distinct keys leaves a container
\* equal to the one any permutation of the range gives from the same start.
C13_EqualityIsCanonical ==
    /\ Finished("equals") =>
           (result.returned <=> logical = LogicalOf(result.other.data))
    /\ Finished("not_equals") =>
           (result.returned <=> logical # LogicalOf(result.other.data))
    /\ (Finished("insert_range") /\ ~result.thrown /\ DistinctKeys(input)) =>
           \A q \in Permutations(1..Len(input)) :
               equals(m_data, EmplaceAll(start.data, Permuted(input, q)))

\* two entries, equal to those of a container of another capacity
C13_Witness ==
    /\ Finished("equals")
    /\ result.returned
    /\ Len(m_data) = 2
    /\ cap # result.other.cap

ThrownInAppend ==
    Finished("insert_range") /\ result.thrown /\ result.step = "append"

\* C14: when the construction of an element appended in a batch throws,
\* every element the batch had appended is gone: the size is the one the
\* batch began with, the entries the map had then keep their index, key and
\* value, the element that threw is the one at begin, and the caller sees
\* no unsorted tail.
C14_BatchRolledBack ==
    ThrownInAppend =>
        /\ Len(m_data) = size_before
        /\ m_data = batch.data
        /\ begin \in batch.begin..Len(input)
        /\ ConstructionThrows(input[begin])
        /\ \A n \in batch.begin..(begin - 1) : ~ConstructionThrows(input[n])
        /\ \A n \in 1..(Len(m_data) - 1) : key_compare(m_data[n].first, m_data[n + 1].first)

\* the third element of the batch threw; the two appended before it, out
\* of order, were popped from behind the entries the map had
C14_Witness ==
    /\ ThrownInAppend
    /\ begin = batch.begin + 2
    /\ key_compare(input[batch.begin + 1].first, input[batch.begin].first)
    /\ batch.data # << >>

\* C15 as stated: the fallback emplaces one element of the remaining range,
\* inserted or not, and the outer loop resumes: the loop of the fallback
\* never makes a second pass.
C15_ExactlyOneElement ==
    /\ pc = "stuck" => batch.fallback = 0
    /\ pc \in {"fast", "append", "stuck"} => batch.fallback <= 1

\* in the fallback loop nothing has been added since the batch began: every
\* element consumed since then has a key the map had
StuckNothingAdded ==
    pc = "stuck" =>
        /\ Len(m_data) = size_before
        /\ m_data = batch.data
        /\ \A n \in batch.begin..(begin - 1) : HasKey(batch.data, input[n].first)

\* a batch that added nothing is followed by the fallback loop and no other
\* batch is; a pass of that loop that does not throw consumes one element;
\* the loop goes on when the key was present, leaving the entries alone, and
\* is left for the outer loop when the element was inserted, or when the
\* range is used up
StuckStep ==
    /\ (pc = "append" /\ pc' \in {"fast", "stuck"}) =>
           (pc' = "stuck" <=> Len(m_data') = size_before)
    /\ (pc = "stuck" /\ pc' = "stuck") =>
           /\ HasKey(m_data, input[begin].first)
           /\ m_data' = m_data
           /\ begin' = begin + 1
           /\ batch'.fallback = batch.fallback + 1
    /\ (pc = "stuck" /\ pc' = "fast") =>
           \/ /\ begin > Len(input)
              /\ UNCHANGED <<m_data, begin>>
              /\ batch'.fallback = batch.fallback
           \/ /\ begin <= Len(input)
              /\ ~HasKey(m_data, input[begin].first)
              /\ HasKey(m_data', input[begin].first)
              /\ Len(m_data') = size_before + 1
              /\ begin' = begin + 1
              /\ batch'.fallback = batch.fallback + 1

\* C15, amended: when a batch leaves the size it began with, the remaining
\* elements are emplaced one at a time until one of them is inserted or the
\* range is used up, and only then does the outer loop resume; an element
\* whose key is present does not end the fallback.
C15_FallbackUntilInserted == []StuckNothingAdded /\ [][StuckStep]_vars

\* the batch added nothing, the first element of the fallback had a key the
\* map holds, the second was inserted and the outer loop resumes
C15_Witness ==
    /\ pc = "fast"
    /\ batch.fallback = 2
    /\ Len(m_data) = size_before + 1
    /\ begin > batch.begin + 2

InInsert == pc \in {"fast", "append", "stuck"}

\* a bulk insert returns with the whole range consumed
ReturnsAtEnd ==
    (Finished("insert_range") /\ ~result.thrown) => begin = Len(input) + 1

\* begin never moves back, and a call of insert(It, It) entered with a
\* range that is not empty has consumed an element of it when it calls
\* itself on the rest
PassConsumes ==
    /\ InInsert => begin' >= begin
    /\ (pc \in {"append", "stuck"} /\ pc' = "fast") =>
           /\ batch.entry <= Len(input)
           /\ begin' > batch.entry
           /\ batch'.entry = begin'

\* C16: a bulk insert, once called, returns or throws, from every container
\* and for every range; each call of insert(It, It) on a range that is not
\* empty consumes at least one element before it calls itself on the rest;
\* it returns only with the whole range consumed.
C16_Terminates ==
    /\ []ReturnsAtEnd
    /\ [][PassConsumes]_vars
    /\ (InInsert ~> pc = "done")

\* three elements with the key the map holds, which has one spare slot: a
\* batch that added nothing, a fallback of two elements that inserted
\* nothing, and the call of itself on the empty rest returned
C16_Witness ==
    /\ Finished("insert_range")
    /\ ~result.thrown
    /\ Len(input) = 3
    /\ m_data = start.data
    /\ Len(m_data) = 1
    /\ cap = Len(m_data) + 1
    /\ batch.fallback = 2
    /\ batch.entry = 4

Min(a, b) == IF a < b THEN a ELSE b

\* elements the append loop in progress has added
Appended == begin - batch.begin

\* in the append loop the capacity is the one the batch began with, the
\* batch began with room to spare, and the size is within the capacity
AppendWithinCapacity ==
    pc = "append" =>
        /\ cap = batch.cap
        /\ size_before < batch.cap
        /\ Len(m_data) = size_before + Appended
        /\ Len(m_data) <= cap
        /\ i = batch.cap - Appended

\* the first loop emplaces only into a full vector and hands over to the
\* append loop only when there is room; an append loop that ends without a
\* throw has added min(remaining range, capacity - size) elements, at least
\* one, and the capacity is the one it began with
PhaseStep ==
    /\ (pc = "fast" /\ begin' = begin + 1) => Len(m_data) = cap
    /\ (pc = "fast" /\ pc' = "append") => Len(m_data) < cap
    /\ (pc = "append" /\ pc' \in {"fast", "stuck"}) =>
           /\ Appended = Min(Len(input) + 1 - batch.begin, batch.cap - size_before)
           /\ Appended >= 1
           /\ cap = batch.cap
           /\ cap' = batch.cap

\* an element is emplaced only into a full vector
EmplaceOnlyWhenFull ==
    (pc \in {"fast", "stuck"} /\ begin' = begin + 1) => Len(m_data) = cap

\* C17 as stated: in a bulk insert an element is emplaced only while size ==
\* capacity; with size < capacity the append adds min(remaining range,
\* capacity - size) elements, at least one, and leaves the capacity it
\* began with, the size never above it.
C17_EmplaceOnlyWhenFull ==
    /\ []AppendWithinCapacity
    /\ [][PhaseStep]_vars
    /\ [][EmplaceOnlyWhenFull]_vars

\* C17, amended: the loop of the fast path emplaces only while size ==
\* capacity (the fallback after a batch that added nothing emplaces
\* whatever room there is); with size < capacity the append adds
\* min(remaining range, capacity - size) elements, at least one, and leaves
\* the capacity it began with, the size never above it.
C17_PhasesRespectCapacity ==
    /\ []AppendWithinCapacity
    /\ [][PhaseStep]_vars

\* the append loop has filled the two slots there were, with elements of
\* the range left over
C17_Witness ==
    /\ pc = "append"
    /\ Appended = 2
    /\ batch.cap = size_before + 2
    /\ Len(m_data) = cap
    /\ ~AtEnd(begin, input)
    /\ batch.data # << >>

====
